---- MODULE Spec2Model ----
(***************************************************************************)
(* State-machine model of homeassistant/components/microsoft_face.py:      *)
(* the face-service client (call_api, update_store), the mirrored store,   *)
(* the group entities and the six service handlers registered by           *)
(* async_setup.  Every "yield from" on network I/O is a suspension point;  *)
(* the code between two suspension points is one atomic action.            *)
(***************************************************************************)
EXTENDS Naturals, Sequences, FiniteSets, Bags, TLC

(***************************************************************************)
(* Bounds of the model.                                                    *)
(***************************************************************************)
\* Number of service calls dispatched in one behaviour.
MaxCommands == 3
\* Length of the group list the remote service returns to update_store.
MaxRemoteGroups == 2
\* Length of a person list the remote service returns to update_store.
MaxRemotePersons == 2
\* Number of service handlers suspended at the same time.
MaxInFlight == 2

(***************************************************************************)
(* Value domains.                                                          *)
(***************************************************************************)
\* Display names a caller passes to create_group / delete_group.
GroupNames == {"Family", "Work"}
\* Group identifiers (slugs), as validated by cv.slugify for person services.
GroupIds == {"family", "work"}
PersonNames == {"alice", "bob"}
\* Person identifiers assigned by the remote service.
PersonIds == {"p1", "p2"}
Cameras == {"camera.door"}
\* Error texts the remote service puts in error.message.
RemoteMessages == {"PersonGroupNotFound", "RateLimitExceeded"}
\* HTTP status codes the remote service answers with.
Statuses == {200, 299, 300, 404}

\* Python's None where a str is expected (dict.get on a missing key).
PyNone == "<None>"
\* Python's None as the data argument of call_api.
NoData == <<>>

DOMAIN_NAME == "microsoft_face"
SERVICE_CREATE_GROUP == "create_group"
SERVICE_DELETE_GROUP == "delete_group"
SERVICE_TRAIN_GROUP == "train_group"
SERVICE_CREATE_PERSON == "create_person"
SERVICE_DELETE_PERSON == "delete_person"
SERVICE_FACE_PERSON == "face_person"
Services == {SERVICE_CREATE_GROUP, SERVICE_DELETE_GROUP, SERVICE_TRAIN_GROUP,
             SERVICE_CREATE_PERSON, SERVICE_DELETE_PERSON, SERVICE_FACE_PERSON}

NetworkErrorMessage == "Network error on microsoft face api."

(***************************************************************************)
(* Helpers of the host platform and of Python.                             *)
(***************************************************************************)
\* homeassistant.util.slugify on the display names of GroupNames and
\* VehicleNames: lower-cases and makes the name identifier-safe.
slugify(name) ==
    CASE name = "Family" -> "family"
      [] name = "Work" -> "work"
      [] name = "i3 REx" -> "i3_rex"
      [] name = "X5" -> "x5"
      [] OTHER -> name

\* "{0}".format(v): None is rendered as the text None.
FormatArg(v) == IF v = PyNone THEN "None" ELSE v

\* dict.get(key): the value, or None when the key is missing.
DictGet(d, key) == IF key \in DOMAIN d THEN d[key] ELSE PyNone

\* The empty dict {}.
EmptyDict == [k \in {} |-> PyNone]

\* d[key] = value on a dict.
DictSet(d, key, value) ==
    [k \in DOMAIN d \cup {key} |-> IF k = key THEN value ELSE d[k]]

\* d.pop(key) for a key that is present: the dict without it.
DictPop(d, key) == [k \in DOMAIN d \ {key} |-> d[k]]

(***************************************************************************)
(* MicrosoftFace.call_api                                                  *)
(***************************************************************************)
\* json.dumps(data).encode()
JsonDumps(data) == [json |-> data]

\* The request call_api hands to the HTTP session.
BuildRequest(method, function, data, binary) ==
    [method |-> method,
     url |-> function,
     content_type |-> IF binary THEN "application/octet-stream"
                                ELSE "application/json",
     payload |-> IF binary THEN data
                 ELSE IF data # NoData THEN JsonDumps(data) ELSE NoData]

\* What the transport does with a request under the timeout:
\*   response      a response arrived and its body was parsed as JSON
\*   client_error  aiohttp.ClientError
\*   timeout       asyncio.TimeoutError; bound tells whether the local
\*                 variable "response" had been assigned when it struck.
Response(status, body) ==
    [kind |-> "response", status |-> status, body |-> body, bound |-> TRUE]
ClientError ==
    [kind |-> "client_error", status |-> 0, body |-> NoData, bound |-> FALSE]
Timeout(bound) ==
    [kind |-> "timeout", status |-> 0, body |-> NoData, bound |-> bound]

\* Error bodies: with the nested error.message field, and without it.
ErrorBody(msg) == [error |-> [code |-> "Error", message |-> msg]]
ErrorBodyNoMessage == [error |-> [code |-> "Error"]]
ErrorBodies == {ErrorBody(m) : m \in RemoteMessages} \cup {ErrorBodyNoMessage}

\* Results of a call: a returned value or a raised exception.
Return(value) ==
    [kind |-> "return", exc |-> "", msg |-> "", value |-> value]
Raise(exc, msg) ==
    [kind |-> "raise", exc |-> exc, msg |-> msg, value |-> NoData]

\* Whether answer['error']['message'] (line 368) finds its key.
HasErrorMessage(answer) ==
    "error" \in DOMAIN answer /\ "message" \in DOMAIN answer.error

\* call_api with the status test off by one: 300 counts as a success.
call_api_StatusOffByOne(method, function, data, binary, t) ==
    IF t.kind = "response"
    THEN IF t.status <= 300
         THEN Return(t.body)
         ELSE IF HasErrorMessage(t.body)
              THEN Raise("HomeAssistantError", t.body.error.message)
              ELSE Raise("KeyError", "message")
    ELSE IF t.kind = "timeout" /\ ~t.bound
         THEN Raise("UnboundLocalError", "response")
         ELSE Raise("HomeAssistantError", NetworkErrorMessage)

\* call_api that lets aiohttp.ClientError through to its caller.
call_api_ClientErrorEscapes(method, function, data, binary, t) ==
    IF t.kind = "response"
    THEN IF t.status < 300
         THEN Return(t.body)
         ELSE IF HasErrorMessage(t.body)
              THEN Raise("HomeAssistantError", t.body.error.message)
              ELSE Raise("KeyError", "message")
    ELSE IF t.kind = "client_error"
         THEN Raise("ClientError", "")
         ELSE IF t.bound
              THEN Raise("HomeAssistantError", NetworkErrorMessage)
              ELSE Raise("UnboundLocalError", "response")

\* Lines 338-376, given the transport's behaviour t: the value returned or
\* the exception raised.
call_api(method, function, data, binary, t) ==
    IF t.kind = "response"
    THEN IF t.status < 300
         THEN Return(t.body)
         ELSE IF HasErrorMessage(t.body)
              THEN Raise("HomeAssistantError", t.body.error.message)
              ELSE Raise("KeyError", "message")
    ELSE IF t.kind = "client_error"
         THEN Raise("HomeAssistantError", NetworkErrorMessage)
         ELSE \* asyncio.TimeoutError: the handler logs response.url
              IF t.bound
              THEN Raise("HomeAssistantError", NetworkErrorMessage)
              ELSE Raise("UnboundLocalError", "response")

\* Transport failures, common to every request.
TransportFailures ==
    {ClientError, Timeout(TRUE), Timeout(FALSE)}
    \cup {Response(s, b) : s \in {s \in Statuses : s >= 300}, b \in ErrorBodies}

\* Everything the transport can do with a request whose success body is
\* one of okBodies.
Transports(okBodies) ==
    TransportFailures
    \cup {Response(s, b) : s \in {s \in Statuses : s < 300}, b \in okBodies}

(***************************************************************************)
(* State.                                                                  *)
(***************************************************************************)
VARIABLES
    remote,     \* what the remote service holds when update_store reads it
    store,      \* MicrosoftFace._store: group id -> (person name -> person id)
    entities,   \* the entities dict of async_setup: group id -> entity
    states,     \* hass.states: entity id -> the state last written for it
    setup,      \* async_setup / update_store: position and local variables
    services,   \* service names registered with hass.services
    published,  \* whether hass.data[DATA_MICROSOFT_FACE] holds the client
    inflight,   \* bag of the frames of the suspended service handlers
    started,    \* number of service calls dispatched so far
    last,       \* the step executed last: what it called and how it ended
    apiIn,      \* arguments of a direct call_api invocation
    apiOut,     \* its request and result
    raced,      \* history. suspended: a bag with, for each handler
                \* suspended at its call_api, its frame and the services
                \* whose handlers wrote the store entry of its group since
                \* it is there; ended: those services for the handler that
                \* ended last, if it wrote the store (empty otherwise)
    bmw         \* the BMW accounts, their update listeners and the calls
                \* of BMWDeviceTracker.update made by the last step

vars == <<remote, store, entities, states, setup, services, published,
          inflight, started, last, apiIn, apiOut, raced, bmw>>

(***************************************************************************)
(* MicrosoftFaceGroupEntity                                                *)
(***************************************************************************)
\* __init__(hass, api, g_id, name)
MicrosoftFaceGroupEntity(g_id, name) == [id |-> g_id, name |-> name]

\* entity_id property
entity_id(entity) == DOMAIN_NAME \o "." \o entity.id

\* state property: len(self._api.store[self._id])
state(st, entity) == Cardinality(DOMAIN st[entity.id])

\* device_state_attributes property: a copy of the group's mapping
device_state_attributes(st, entity) ==
    [n \in DOMAIN st[entity.id] |-> st[entity.id][n]]

\* Entity.async_update_ha_state: writes the entity's current state and
\* attributes to hass.states under its entity id.
async_update_ha_state(sts, st, entity) ==
    DictSet(sts, entity_id(entity),
            [state |-> state(st, entity),
             attributes |-> device_state_attributes(st, entity)])

\* hass.states.async_remove(entity_id): drops the state if there is one.
async_remove(sts, eid) == [k \in DOMAIN sts \ {eid} |-> sts[k]]

(***************************************************************************)
(* The step record.                                                        *)
(***************************************************************************)
\* cmd: the service call, when the step dispatched one that ended before
\* its first suspension, else <<>>;
\* call: "none" when the step consumed no call_api result, else "return"
\* or the exception call_api raised; value: the personId call_api returned;
\* exit: how the step left its operation: "suspended", "returned" or the
\* exception that escaped from it; write: the operation and the group whose
\* store entry the step wrote, <<>> when it wrote none.
Step(cmd, call, value, exit, write) ==
    [cmd |-> cmd, call |-> call, value |-> value, exit |-> exit,
     write |-> write]
NoCmd == <<>>
NoWrite == <<>>

\* How a call_api result is recorded in a step.
CallKind(r) == IF r.kind = "return" THEN "return" ELSE r.exc

(***************************************************************************)
(* Remote content read by update_store.                                    *)
(***************************************************************************)
SeqsUpTo(S, n) == UNION {[1..k -> S] : k \in 0..n}

\* No two groups of the list have the same identifier.
DistinctGroupIds(groups) ==
    \A i, j \in 1..Len(groups) :
        i # j => groups[i].personGroupId # groups[j].personGroupId
\* No two persons of the list have the same name.
DistinctNames(persons) ==
    \A i, j \in 1..Len(persons) : i # j => persons[i].name # persons[j].name

\* The display name of a remote group need not be the one create_group would
\* give its identifier.
RemoteGroupRecords ==
    {[personGroupId |-> "family", name |-> "Family"],
     [personGroupId |-> "work", name |-> "Office"]}
RemotePersonRecords == [name : PersonNames, personId : PersonIds]

\* Group lists: group identifiers are unique.
RemoteGroupLists ==
    {s \in SeqsUpTo(RemoteGroupRecords, MaxRemoteGroups) :
        DistinctGroupIds(s)}
\* Person lists of one group: names are unique within a group.
RemotePersonLists ==
    {s \in SeqsUpTo(RemotePersonRecords, MaxRemotePersons) :
        DistinctNames(s)}

ListedGroups(groups) == {groups[i].personGroupId : i \in 1..Len(groups)}

\* Remote contents: persons only under listed groups, and person
\* identifiers unique across the whole service.
Remotes ==
    {r \in [groups : RemoteGroupLists,
            persons : [GroupIds -> RemotePersonLists]] :
        /\ \A g \in GroupIds \ ListedGroups(r.groups) : r.persons[g] = <<>>
        /\ \A g, h \in GroupIds : \A i \in 1..Len(r.persons[g]) :
             \A j \in 1..Len(r.persons[h]) :
                (g # h \/ i # j) =>
                    r.persons[g][i].personId # r.persons[h][j].personId}

(***************************************************************************)
(* async_setup and MicrosoftFace.update_store                              *)
(***************************************************************************)
Setup(pc, groups, idx, tasks, pending) ==
    [pc |-> pc, groups |-> groups, idx |-> idx, tasks |-> tasks,
     pending |-> pending]

\* Lines 116-123 and 299-307: the client is constructed with an empty store
\* and async_setup is suspended in update_store's first call_api.
InitProgram ==
    /\ store = EmptyDict
    /\ entities = EmptyDict
    /\ states = EmptyDict
    /\ setup = Setup("list", <<>>, 0, <<>>, {})
    /\ services = {}
    /\ published = FALSE
    /\ inflight = EmptyBag
    /\ started = 0
    /\ last = Step(NoCmd, "none", PyNone, "suspended", NoWrite)
    /\ raced = [suspended |-> EmptyBag, ended |-> {}]

\* StorePersons that stops after the first person of the list.
StorePersons_FirstOnly(mapping, persons, i) ==
    IF Len(persons) = 0 THEN mapping
    ELSE DictSet(mapping, persons[1].name, persons[1].personId)

\* Lines 329-330: the persons of a list are stored in list order.
RECURSIVE StorePersons(_, _, _)
StorePersons(mapping, persons, i) ==
    IF i > Len(persons) THEN mapping
    ELSE StorePersons(
            DictSet(mapping, persons[i].name, persons[i].personId),
            persons, i + 1)

\* SetupAbort for an async_setup that ignores the failure of update_store.
SetupAbort_Ignore(r) == "done"

\* How update_store leaves async_setup when call_api raises (lines 125-130):
\* HomeAssistantError makes setup return False, anything else escapes.
SetupAbort(r) == IF r.exc = "HomeAssistantError" THEN "failed" ELSE "crashed"

\* Lines 320-327 for groups[idx], or lines 334-335 and 132-253 once the loop
\* is over.  st, ents: store and entities so far.
SyncLoop(st, ents, groups, idx, tasks, lastStep) ==
    IF idx <= Len(groups)
    THEN LET g_id == groups[idx].personGroupId IN
         /\ store' = DictSet(st, g_id, EmptyDict)
         /\ entities' = DictSet(ents, g_id,
                MicrosoftFaceGroupEntity(g_id, groups[idx].name))
         /\ setup' = Setup("persons", groups, idx, tasks, {})
         /\ last' = [lastStep EXCEPT !.exit = "suspended"]
         /\ UNCHANGED <<services, published>>
    ELSE /\ store' = st
         /\ entities' = ents
         /\ IF tasks # <<>>
            THEN /\ setup' = Setup("refresh", groups, idx, tasks,
                                   1..Len(tasks))
                 /\ last' = [lastStep EXCEPT !.exit = "suspended"]
                 /\ UNCHANGED <<services, published>>
            ELSE /\ setup' = Setup("done", groups, idx, tasks, {})
                 /\ last' = [lastStep EXCEPT !.exit = "returned"]
                 /\ published' = TRUE
                 /\ services' = Services

\* Line 317 resumes: the group list arrives, or the call fails.
SyncGroups ==
    /\ setup.pc = "list"
    /\ \E t \in Transports({remote.groups}) :
         LET r == call_api("get", <<"persongroups">>, NoData, FALSE, t)
             s == Step(NoCmd, CallKind(r), PyNone, r.exc, NoWrite)
         IN IF r.kind = "raise"
            THEN /\ setup' = [setup EXCEPT !.pc = SetupAbort(r)]
                 /\ last' = s
                 /\ UNCHANGED <<store, entities, services, published>>
            ELSE SyncLoop(store, entities, r.value, 1, <<>>, s)
    /\ UNCHANGED <<remote, states, inflight, started, apiIn, apiOut, raced,
                   bmw>>

\* Line 326 resumes for groups[idx]: its persons arrive, or the call fails.
SyncPersons ==
    /\ setup.pc = "persons"
    /\ LET g_id == setup.groups[setup.idx].personGroupId IN
       \E t \in Transports({remote.persons[g_id]}) :
         LET r == call_api("get", <<"persongroups", g_id, "persons">>,
                           NoData, FALSE, t)
             s == Step(NoCmd, CallKind(r), PyNone, r.exc, NoWrite)
         IN IF r.kind = "raise"
            THEN /\ setup' = [setup EXCEPT !.pc = SetupAbort(r)]
                 /\ last' = s
                 /\ UNCHANGED <<store, entities, services, published>>
            ELSE SyncLoop(
                    DictSet(store, g_id, StorePersons(store[g_id], r.value, 1)),
                    entities, setup.groups, setup.idx + 1,
                    Append(setup.tasks, g_id), s)
    /\ UNCHANGED <<remote, states, inflight, started, apiIn, apiOut, raced,
                   bmw>>

\* Line 335: asyncio.wait runs the collected refresh coroutines, each as a
\* task of its own, in no fixed order.
SyncRefresh ==
    /\ setup.pc = "refresh"
    /\ \E i \in setup.pending :
         LET g_id == setup.tasks[i] IN
         /\ states' = async_update_ha_state(states, store, entities[g_id])
         /\ setup' = [setup EXCEPT !.pending = @ \ {i}]
         /\ last' = Step(NoCmd, "none", PyNone, "suspended", NoWrite)
    /\ UNCHANGED <<remote, store, entities, services, published, inflight,
                   started, apiIn, apiOut, raced, bmw>>

\* SyncJoin that does not wait for the refresh tasks.
SyncJoin_Early ==
    /\ setup.pc = "refresh"
    /\ setup' = [setup EXCEPT !.pc = "done"]
    /\ published' = TRUE
    /\ services' = Services
    /\ last' = Step(NoCmd, "none", PyNone, "returned", NoWrite)
    /\ UNCHANGED <<remote, store, entities, states, inflight, started,
                   apiIn, apiOut, raced, bmw>>

\* Line 335 resumes once every task is done; async_setup publishes the
\* client and registers the six services (lines 132-253).
SyncJoin ==
    /\ setup.pc = "refresh"
    /\ setup.pending = {}
    /\ setup' = [setup EXCEPT !.pc = "done"]
    /\ published' = TRUE
    /\ services' = Services
    /\ last' = Step(NoCmd, "none", PyNone, "returned", NoWrite)
    /\ UNCHANGED <<remote, store, entities, states, inflight, started,
                   apiIn, apiOut, raced, bmw>>

(***************************************************************************)
(* Service handlers (closures of async_setup).  A handler runs from its    *)
(* dispatch to its first "yield from" (Start...), and from the completion  *)
(* of the awaited call to its end (Resume...).                             *)
(***************************************************************************)
\* The frame of a suspended handler: its local variables, where it is
\* suspended, and the request it has sent.
Frame(op, g, name, p_id, pc, req) ==
    [op |-> op, g |-> g, name |-> name, p_id |-> p_id, pc |-> pc,
     req |-> req]

\* Body of a successful response that carries no data.
OkBody == NoData
\* Body of a successful "create person" response.
PersonBodies == {[personId |-> id] : id \in PersonIds}
\* The image bytes camera.async_get_image returns.
ImageBytes == <<255, 216, 255>>

\* A service can be called once async_setup has registered it.
CanDispatch(service) ==
    /\ service \in services
    /\ started < MaxCommands
    /\ BagCardinality(inflight) < MaxInFlight

\* The history entry of the handler with frame f when it arrives at its
\* call_api: no handler has written its group since.
Waiting(f) == [f |-> f, by |-> {}]

\* The handler is suspended with frame f.
Suspend(f) ==
    /\ inflight' = inflight (+) SetToBag({f})
    /\ started' = started + 1
    /\ last' = Step(NoCmd, "none", PyNone, "suspended", NoWrite)
    /\ raced' = IF f.pc = "api"
                THEN [raced EXCEPT
                         !.suspended = @ (+) SetToBag({Waiting(f)})]
                ELSE raced

\* The handler is left by exception exc before its first suspension: it
\* ends without having been at a call.
Escape(op, g_id, name, exc) ==
    /\ started' = started + 1
    /\ last' = Step(<<op, g_id, name>>, "none", PyNone, exc, NoWrite)
    /\ raced' = [raced EXCEPT !.ended = {}]
    /\ UNCHANGED inflight

\* How a handler ends when its call_api raised: HomeAssistantError is caught
\* and logged, anything else leaves the handler.
HandlerExit(r) == IF r.exc = "HomeAssistantError" THEN "returned" ELSE r.exc

\* What the rest of a handler does once its call_api has ended with r:
\* the local state it leaves, how it ends, and whether it wrote the store.
Effect(st, ents, sts, exit, wrote) ==
    [store |-> st, entities |-> ents, states |-> sts, exit |-> exit,
     wrote |-> wrote]

\* The history entry x once the handler of service op has written the store
\* entry of group g_id: nothing makes the handlers wait for each other (no
\* lock in lines 134-247).
Overtake(x, op, g_id) ==
    IF x.f.g = g_id THEN [x EXCEPT !.by = @ \cup {op}] ELSE x

\* The entries S of the bag waiting, each with its copies, once the handler
\* of service op has written the store entry of group g_id.
RECURSIVE Overtaken(_, _, _, _)
Overtaken(S, waiting, op, g_id) ==
    IF S = {}
    THEN EmptyBag
    ELSE LET x == CHOOSE x \in S : TRUE
         IN [y \in {Overtake(x, op, g_id)} |-> CopiesIn(x, waiting)]
               (+) Overtaken(S \ {x}, waiting, op, g_id)

\* The history once the handler with entry x has ended: its entry is
\* removed; when it wrote, its overtakers are those of the handler that
\* ended last and its write overtakes the handlers suspended on its group.
Raced(x, wrote) ==
    LET rest == raced.suspended (-) SetToBag({x})
    IN [suspended |->
           IF wrote
           THEN Overtaken(BagToSet(rest), rest, x.f.op, x.f.g)
           ELSE rest,
        ended |-> IF wrote THEN x.by ELSE {}]

\* The handler with frame f runs to its end with effect e.
Complete(f, r, value, e) ==
    /\ store' = e.store
    /\ entities' = e.entities
    /\ states' = e.states
    /\ inflight' = inflight (-) SetToBag({f})
    /\ last' = Step(NoCmd, CallKind(r), value, e.exit,
                    IF e.wrote THEN <<f.op, f.g>> ELSE NoWrite)
    /\ \E x \in BagToSet(raced.suspended) :
         /\ x.f = f
         /\ raced' = Raced(x, e.wrote)
    /\ UNCHANGED started

HandlerFrame == <<remote, setup, services, published, apiIn, apiOut, bmw>>

\* Lines 134-142
StartCreateGroup ==
    /\ CanDispatch(SERVICE_CREATE_GROUP)
    /\ \E name \in GroupNames :
         LET g_id == slugify(name) IN
         Suspend(Frame(SERVICE_CREATE_GROUP, g_id, name, PyNone, "api",
                       BuildRequest("put", <<"persongroups", g_id>>,
                                    [name |-> name], FALSE)))
    /\ UNCHANGED <<store, entities, states>>
    /\ UNCHANGED HandlerFrame

\* async_create_group that keeps the mapping of a group already stored.
async_create_group_KeepExisting(st, ents, sts, f, r) ==
    IF r.kind = "return"
    THEN LET st2 == IF f.g \in DOMAIN st THEN st
                    ELSE DictSet(st, f.g, EmptyDict)
             ents2 == DictSet(ents, f.g,
                              MicrosoftFaceGroupEntity(f.g, f.name))
         IN Effect(st2, ents2, async_update_ha_state(sts, st2, ents2[f.g]),
                   "returned", TRUE)
    ELSE Effect(st, ents, sts, HandlerExit(r), FALSE)

\* async_create_group that keeps the entity of a group already registered.
async_create_group_KeepEntity(st, ents, sts, f, r) ==
    IF r.kind = "return"
    THEN LET st2 == DictSet(st, f.g, EmptyDict)
             ents2 == IF f.g \in DOMAIN ents THEN ents
                      ELSE DictSet(ents, f.g,
                                   MicrosoftFaceGroupEntity(f.g, f.name))
         IN Effect(st2, ents2, async_update_ha_state(sts, st2, ents2[f.g]),
                   "returned", TRUE)
    ELSE Effect(st, ents, sts, HandlerExit(r), FALSE)

\* Lines 143-148
async_create_group(st, ents, sts, f, r) ==
    IF r.kind = "return"
    THEN LET st2 == DictSet(st, f.g, EmptyDict)
             ents2 == DictSet(ents, f.g,
                              MicrosoftFaceGroupEntity(f.g, f.name))
         IN Effect(st2, ents2, async_update_ha_state(sts, st2, ents2[f.g]),
                   "returned", TRUE)
    ELSE Effect(st, ents, sts, HandlerExit(r), FALSE)

ResumeCreateGroup(f) ==
    /\ f.op = SERVICE_CREATE_GROUP
    /\ \E t \in Transports({OkBody}) :
         LET r == call_api("put", <<"persongroups", f.g>>, [name |-> f.name],
                           FALSE, t)
         IN Complete(f, r, PyNone,
                     async_create_group(store, entities, states, f, r))
    /\ UNCHANGED HandlerFrame

\* Lines 154-160
StartDeleteGroup ==
    /\ CanDispatch(SERVICE_DELETE_GROUP)
    /\ \E name \in GroupNames :
         LET g_id == slugify(name) IN
         Suspend(Frame(SERVICE_DELETE_GROUP, g_id, PyNone, PyNone, "api",
                       BuildRequest("delete", <<"persongroups", g_id>>,
                                    NoData, FALSE)))
    /\ UNCHANGED <<store, entities, states>>
    /\ UNCHANGED HandlerFrame

\* async_delete_group that drops the group before looking at the outcome of
\* its remote call.
async_delete_group_Optimistic(st, ents, sts, f, r) ==
    IF f.g \in DOMAIN st /\ f.g \in DOMAIN ents
    THEN Effect(DictPop(st, f.g), DictPop(ents, f.g),
                async_remove(sts, entity_id(ents[f.g])),
                IF r.kind = "return" THEN "returned" ELSE HandlerExit(r),
                TRUE)
    ELSE Effect(st, ents, sts,
                IF r.kind = "return" THEN "KeyError" ELSE HandlerExit(r),
                FALSE)

\* async_delete_group that forgets to drop the entity.
async_delete_group_StoreOnly(st, ents, sts, f, r) ==
    IF r.kind = "return"
    THEN IF f.g \notin DOMAIN st
         THEN Effect(st, ents, sts, "KeyError", FALSE)
         ELSE Effect(DictPop(st, f.g), ents, sts, "returned", TRUE)
    ELSE Effect(st, ents, sts, HandlerExit(r), FALSE)

\* Lines 161-166: store.pop and entities.pop raise KeyError on a missing key.
async_delete_group(st, ents, sts, f, r) ==
    IF r.kind = "return"
    THEN IF f.g \notin DOMAIN st
         THEN Effect(st, ents, sts, "KeyError", FALSE)
         ELSE IF f.g \notin DOMAIN ents
              THEN Effect(DictPop(st, f.g), ents, sts, "KeyError", TRUE)
              ELSE Effect(DictPop(st, f.g), DictPop(ents, f.g),
                          async_remove(sts, entity_id(ents[f.g])),
                          "returned", TRUE)
    ELSE Effect(st, ents, sts, HandlerExit(r), FALSE)

ResumeDeleteGroup(f) ==
    /\ f.op = SERVICE_DELETE_GROUP
    /\ \E t \in Transports({OkBody}) :
         LET r == call_api("delete", <<"persongroups", f.g>>, NoData, FALSE, t)
         IN Complete(f, r, PyNone,
                     async_delete_group(store, entities, states, f, r))
    /\ UNCHANGED HandlerFrame

\* Lines 172-179
StartTrainGroup ==
    /\ CanDispatch(SERVICE_TRAIN_GROUP)
    /\ \E g_id \in GroupIds :
         Suspend(Frame(SERVICE_TRAIN_GROUP, g_id, PyNone, PyNone, "api",
                       BuildRequest("post", <<"persongroups", g_id, "train">>,
                                    NoData, FALSE)))
    /\ UNCHANGED <<store, entities, states>>
    /\ UNCHANGED HandlerFrame

\* async_train_group that empties the mapping of the group it trained.
async_train_group_Reset(st, ents, sts, f, r) ==
    IF r.kind = "return"
    THEN IF f.g \in DOMAIN st
         THEN Effect(DictSet(st, f.g, EmptyDict), ents, sts, "returned", TRUE)
         ELSE Effect(st, ents, sts, "returned", FALSE)
    ELSE Effect(st, ents, sts, HandlerExit(r), FALSE)

\* Lines 178-181
async_train_group(st, ents, sts, f, r) ==
    IF r.kind = "return"
    THEN Effect(st, ents, sts, "returned", FALSE)
    ELSE Effect(st, ents, sts, HandlerExit(r), FALSE)

ResumeTrainGroup(f) ==
    /\ f.op = SERVICE_TRAIN_GROUP
    /\ \E t \in Transports({OkBody}) :
         LET r == call_api("post", <<"persongroups", f.g, "train">>, NoData,
                           FALSE, t)
         IN Complete(f, r, PyNone,
                     async_train_group(store, entities, states, f, r))
    /\ UNCHANGED HandlerFrame

\* Lines 187-196
StartCreatePerson ==
    /\ CanDispatch(SERVICE_CREATE_PERSON)
    /\ \E g_id \in GroupIds, name \in PersonNames :
         Suspend(Frame(SERVICE_CREATE_PERSON, g_id, name, PyNone, "api",
                       BuildRequest("post",
                                    <<"persongroups", g_id, "persons">>,
                                    [name |-> name], FALSE)))
    /\ UNCHANGED <<store, entities, states>>
    /\ UNCHANGED HandlerFrame

\* async_create_person that creates the group's mapping and entity when the
\* store has none.
async_create_person_Upsert(st, ents, sts, f, r) ==
    IF r.kind = "return"
    THEN LET old == IF f.g \in DOMAIN st THEN st[f.g] ELSE EmptyDict
             st2 == DictSet(st, f.g, DictSet(old, f.name, r.value.personId))
             ents2 == IF f.g \in DOMAIN ents THEN ents
                      ELSE DictSet(ents, f.g,
                                   MicrosoftFaceGroupEntity(f.g, f.g))
         IN Effect(st2, ents2, async_update_ha_state(sts, st2, ents2[f.g]),
                   "returned", TRUE)
    ELSE Effect(st, ents, sts, HandlerExit(r), FALSE)

\* async_create_person that does not refresh the group's entity.
async_create_person_NoRefresh(st, ents, sts, f, r) ==
    IF r.kind = "return"
    THEN IF f.g \notin DOMAIN st
         THEN Effect(st, ents, sts, "KeyError", FALSE)
         ELSE Effect(DictSet(st, f.g,
                             DictSet(st[f.g], f.name, r.value.personId)),
                     ents, sts,
                     IF f.g \in DOMAIN ents THEN "returned" ELSE "KeyError",
                     TRUE)
    ELSE Effect(st, ents, sts, HandlerExit(r), FALSE)

\* async_create_person that writes the person with setdefault, giving a
\* missing group a mapping again.
async_create_person_SetDefault(st, ents, sts, f, r) ==
    IF r.kind = "return"
    THEN LET old == IF f.g \in DOMAIN st THEN st[f.g] ELSE EmptyDict
             st2 == DictSet(st, f.g, DictSet(old, f.name, r.value.personId))
         IN IF f.g \notin DOMAIN ents
            THEN Effect(st2, ents, sts, "KeyError", TRUE)
            ELSE Effect(st2, ents,
                        async_update_ha_state(sts, st2, ents[f.g]),
                        "returned", TRUE)
    ELSE Effect(st, ents, sts, HandlerExit(r), FALSE)

\* Lines 198-201: face.store[g_id] and entities[g_id] raise KeyError on a
\* missing group.
async_create_person(st, ents, sts, f, r) ==
    IF r.kind = "return"
    THEN LET user_data == r.value IN
         IF f.g \notin DOMAIN st
         THEN Effect(st, ents, sts, "KeyError", FALSE)
         ELSE LET st2 == DictSet(st, f.g,
                            DictSet(st[f.g], f.name, user_data.personId))
              IN IF f.g \notin DOMAIN ents
                 THEN Effect(st2, ents, sts, "KeyError", TRUE)
                 ELSE Effect(st2, ents,
                             async_update_ha_state(sts, st2, ents[f.g]),
                             "returned", TRUE)
    ELSE Effect(st, ents, sts, HandlerExit(r), FALSE)

ResumeCreatePerson(f) ==
    /\ f.op = SERVICE_CREATE_PERSON
    /\ \E t \in Transports(PersonBodies) :
         LET r == call_api("post", <<"persongroups", f.g, "persons">>,
                           [name |-> f.name], FALSE, t)
         IN Complete(f, r,
                     IF r.kind = "return" THEN r.value.personId ELSE PyNone,
                     async_create_person(store, entities, states, f, r))
    /\ UNCHANGED HandlerFrame

\* StartDeletePerson that gives up, without a remote call, when the group's
\* mapping has no such name.
StartDeletePerson_FailFast ==
    /\ CanDispatch(SERVICE_DELETE_PERSON)
    /\ \E g_id \in GroupIds, name \in PersonNames :
         IF g_id \notin DOMAIN store \/ name \notin DOMAIN store[g_id]
         THEN Escape(SERVICE_DELETE_PERSON, g_id, name, "KeyError")
         ELSE Suspend(Frame(SERVICE_DELETE_PERSON, g_id, name,
                            store[g_id][name], "api",
                            BuildRequest("delete",
                                <<"persongroups", g_id, "persons",
                                  store[g_id][name]>>, NoData, FALSE)))
    /\ UNCHANGED <<store, entities, states>>
    /\ UNCHANGED HandlerFrame

\* Lines 207-216: the lookup face.store[g_id] is outside the try block and
\* raises KeyError on a missing group; .get(name) yields None on a missing
\* person, and None is formatted into the path.
StartDeletePerson ==
    /\ CanDispatch(SERVICE_DELETE_PERSON)
    /\ \E g_id \in GroupIds, name \in PersonNames :
         IF g_id \notin DOMAIN store
         THEN Escape(SERVICE_DELETE_PERSON, g_id, name, "KeyError")
         ELSE LET p_id == DictGet(store[g_id], name) IN
              Suspend(Frame(SERVICE_DELETE_PERSON, g_id, name, p_id, "api",
                            BuildRequest("delete",
                                <<"persongroups", g_id, "persons",
                                  FormatArg(p_id)>>, NoData, FALSE)))
    /\ UNCHANGED <<store, entities, states>>
    /\ UNCHANGED HandlerFrame

\* async_delete_person that empties the whole mapping of the group.
async_delete_person_Clear(st, ents, sts, f, r) ==
    IF r.kind = "return"
    THEN IF f.g \notin DOMAIN st \/ f.name \notin DOMAIN st[f.g]
         THEN Effect(st, ents, sts, "KeyError", FALSE)
         ELSE LET st2 == DictSet(st, f.g, EmptyDict)
              IN IF f.g \notin DOMAIN ents
                 THEN Effect(st2, ents, sts, "KeyError", TRUE)
                 ELSE Effect(st2, ents,
                             async_update_ha_state(sts, st2, ents[f.g]),
                             "returned", TRUE)
    ELSE Effect(st, ents, sts, HandlerExit(r), FALSE)

\* Lines 218-221: store[g_id].pop(name) raises KeyError on a missing name.
async_delete_person(st, ents, sts, f, r) ==
    IF r.kind = "return"
    THEN IF f.g \notin DOMAIN st \/ f.name \notin DOMAIN st[f.g]
         THEN Effect(st, ents, sts, "KeyError", FALSE)
         ELSE LET st2 == DictSet(st, f.g, DictPop(st[f.g], f.name))
              IN IF f.g \notin DOMAIN ents
                 THEN Effect(st2, ents, sts, "KeyError", TRUE)
                 ELSE Effect(st2, ents,
                             async_update_ha_state(sts, st2, ents[f.g]),
                             "returned", TRUE)
    ELSE Effect(st, ents, sts, HandlerExit(r), FALSE)

ResumeDeletePerson(f) ==
    /\ f.op = SERVICE_DELETE_PERSON
    /\ \E t \in Transports({OkBody}) :
         LET r == call_api("delete",
                           <<"persongroups", f.g, "persons",
                             FormatArg(f.p_id)>>, NoData, FALSE, t)
         IN Complete(f, r, PyNone,
                     async_delete_person(store, entities, states, f, r))
    /\ UNCHANGED HandlerFrame

\* Lines 227-237: the lookup is outside the try block; the handler is then
\* suspended in camera.async_get_image, with no request sent yet.
StartFacePerson ==
    /\ CanDispatch(SERVICE_FACE_PERSON)
    /\ \E g_id \in GroupIds, person \in PersonNames, camera_entity \in Cameras :
         IF g_id \notin DOMAIN store
         THEN Escape(SERVICE_FACE_PERSON, g_id, person, "KeyError")
         ELSE Suspend(Frame(SERVICE_FACE_PERSON, g_id, PyNone,
                            DictGet(store[g_id], person), "image", NoData))
    /\ UNCHANGED <<store, entities, states>>
    /\ UNCHANGED HandlerFrame

\* Lines 237-245: the image arrives and the face is posted, or the camera
\* raises HomeAssistantError, which the handler catches.
ResumeFaceImage(f) ==
    /\ f.op = SERVICE_FACE_PERSON
    /\ f.pc = "image"
    /\ \E gotImage \in BOOLEAN :
         IF gotImage
         THEN LET f2 == [f EXCEPT !.pc = "api",
                                  !.req = BuildRequest("post",
                                      <<"persongroups", f.g, "persons",
                                        FormatArg(f.p_id), "persistedFaces">>,
                                      ImageBytes, TRUE)]
              IN /\ inflight' =
                       (inflight (-) SetToBag({f})) (+) SetToBag({f2})
                 /\ last' = Step(NoCmd, "none", PyNone, "suspended",
                                 NoWrite)
                 /\ raced' = [raced EXCEPT
                                 !.suspended = @ (+) SetToBag({Waiting(f2)})]
         ELSE /\ inflight' = inflight (-) SetToBag({f})
              /\ last' = Step(NoCmd, "none", PyNone, "returned", NoWrite)
              /\ raced' = [raced EXCEPT !.ended = {}]
    /\ UNCHANGED <<store, entities, states, started>>
    /\ UNCHANGED HandlerFrame

\* Lines 239-247
async_face_person(st, ents, sts, f, r) ==
    IF r.kind = "return"
    THEN Effect(st, ents, sts, "returned", FALSE)
    ELSE Effect(st, ents, sts, HandlerExit(r), FALSE)

ResumeFacePerson(f) ==
    /\ f.op = SERVICE_FACE_PERSON
    /\ f.pc = "api"
    /\ \E t \in Transports({OkBody}) :
         LET r == call_api("post",
                           <<"persongroups", f.g, "persons", FormatArg(f.p_id),
                             "persistedFaces">>, ImageBytes, TRUE, t)
         IN Complete(f, r, PyNone,
                     async_face_person(store, entities, states, f, r))
    /\ UNCHANGED HandlerFrame

(***************************************************************************)
(* The component: setup, then service calls in any interleaving.           *)
(***************************************************************************)
NoApiCall == [called |-> FALSE]

(***************************************************************************)
(* device_tracker/bmw_connected_drive.py                                   *)
(***************************************************************************)
\* Accounts in hass.data[BMW_DOMAIN] and vehicles of one account.
MaxAccounts == 2
MaxVehicles == 2

VehicleNames == {"i3 REx", "X5"}
Positions == {<<48, 11>>, <<52, 13>>}
\* vehicle.state as update reads it.
VehicleStates ==
    [is_vehicle_tracking_enabled : BOOLEAN, gps_position : Positions]
Vehicles == [name : VehicleNames, state : VehicleStates]
\* An account of the bmw_connected_drive component: account.account.vehicles.
Accounts == [vehicles : SeqsUpTo(Vehicles, MaxVehicles)]

\* The platform is not set up.
NoBmw == [pc |-> "off"]

\* BMWDeviceTracker(see, vehicle): the vehicle is held by reference, as
\* <<index of its account, index in account.account.vehicles>>.
BMWDeviceTracker(a, v) == [vehicle |-> <<a, v>>]

\* The vehicle a tracker refers to, as it is now.
VehicleOf(accounts, tracker) ==
    accounts[tracker.vehicle[1]].vehicles[tracker.vehicle[2]]

\* update that reports the position whatever the tracking flag says.
update_IgnoreFlag(vehicle) ==
    <<[dev_id |-> slugify(vehicle.name), host_name |-> vehicle.name,
       gps |-> vehicle.state.gps_position, icon |-> "mdi:car"]>>

\* BMWDeviceTracker.update (lines 38-55): the calls of see it makes.
update(vehicle) ==
    LET dev_id == slugify(vehicle.name) IN
    IF ~vehicle.state.is_vehicle_tracking_enabled
    THEN <<>>
    ELSE <<[dev_id |-> dev_id, host_name |-> vehicle.name,
            gps |-> vehicle.state.gps_position, icon |-> "mdi:car"]>>

\* One call of tracker.update: the tracker and the calls of see it made.
UpdateCall(accounts, tracker) ==
    [tracker |-> tracker, sees |-> update(VehicleOf(accounts, tracker))]

\* Lines 23-25 for one account: a tracker per vehicle, in order.
TrackersOf(accounts, a) ==
    [v \in 1..Len(accounts[a].vehicles) |-> BMWDeviceTracker(a, v)]

\* Lines 22-26: the trackers of all accounts in the order of the loops.
RECURSIVE AllTrackers(_, _)
AllTrackers(accounts, a) ==
    IF a > Len(accounts) THEN <<>>
    ELSE TrackersOf(accounts, a) \o AllTrackers(accounts, a + 1)

\* by: 0 for setup_scanner, the account's index for an account update.
Bmw(pc, accounts, listeners, by, calls) ==
    [pc |-> pc, accounts |-> accounts, listeners |-> listeners, by |-> by,
     calls |-> calls]

MicrosoftFaceVars ==
    <<remote, store, entities, states, setup, services, published, inflight,
      started, last, apiIn, apiOut, raced>>

InitBmw ==
    /\ remote = [groups |-> <<>>, persons |-> [g \in GroupIds |-> <<>>]]
    /\ InitProgram
    /\ apiIn = NoApiCall
    /\ apiOut = NoApiCall
    /\ \E accounts \in SeqsUpTo(Accounts, MaxAccounts) :
         bmw = Bmw("setup", accounts,
                   [a \in 1..Len(accounts) |-> <<>>], 0, <<>>)

\* Lines 17-27: every vehicle of every account gets a tracker, whose update
\* is registered as a listener of the account and called once.
setup_scanner ==
    /\ bmw.pc = "setup"
    /\ LET trackers == AllTrackers(bmw.accounts, 1) IN
       bmw' = Bmw("ready", bmw.accounts,
                  [a \in 1..Len(bmw.accounts) |->
                      bmw.listeners[a] \o TrackersOf(bmw.accounts, a)],
                  0,
                  [i \in 1..Len(trackers) |->
                      UpdateCall(bmw.accounts, trackers[i])])
    /\ UNCHANGED MicrosoftFaceVars

\* The account refreshes the state of its vehicles from the BMW service and
\* calls its update listeners in the order they were added.
AccountUpdate ==
    /\ bmw.pc = "ready"
    /\ \E a \in 1..Len(bmw.accounts) :
       \E states2 \in [1..Len(bmw.accounts[a].vehicles) -> VehicleStates] :
         LET accounts2 ==
                [bmw.accounts EXCEPT ![a].vehicles =
                    [v \in 1..Len(@) |-> [@[v] EXCEPT !.state = states2[v]]]]
         IN bmw' = Bmw("ready", accounts2, bmw.listeners, a,
                       [i \in 1..Len(bmw.listeners[a]) |->
                           UpdateCall(accounts2, bmw.listeners[a][i])])
    /\ UNCHANGED MicrosoftFaceVars

NextBmw ==
    \/ setup_scanner
    \/ AccountUpdate

SpecBmw == InitBmw /\ [][NextBmw]_vars

(***************************************************************************)
(* call_api on its own: every argument and every transport behaviour.      *)
(***************************************************************************)
ApiMethods == {"get", "post", "put", "delete"}
ApiFunctions == {<<"persongroups">>, <<"persongroups", "family", "persons">>}
\* data and binary as the callers combine them.
ApiPayloads ==
    {[data |-> NoData, binary |-> FALSE],
     [data |-> [name |-> "alice"], binary |-> FALSE],
     [data |-> ImageBytes, binary |-> TRUE]}
ApiInputs ==
    [method : ApiMethods, function : ApiFunctions, payload : ApiPayloads,
     t : Transports({OkBody} \cup PersonBodies)]

InitApi ==
    /\ remote = [groups |-> <<>>, persons |-> [g \in GroupIds |-> <<>>]]
    /\ InitProgram
    /\ apiIn \in ApiInputs
    /\ apiOut = NoApiCall
    /\ bmw = NoBmw

ApiCall ==
    /\ apiOut = NoApiCall
    /\ apiOut' =
         [called |-> TRUE,
          request |-> BuildRequest(apiIn.method, apiIn.function,
                                   apiIn.payload.data, apiIn.payload.binary),
          result |-> call_api(apiIn.method, apiIn.function,
                              apiIn.payload.data, apiIn.payload.binary,
                              apiIn.t)]
    /\ UNCHANGED <<remote, store, entities, states, setup, services,
                   published, inflight, started, last, apiIn, raced, bmw>>

NextApi == ApiCall

SpecApi == InitApi /\ [][NextApi]_vars

Init ==
    /\ remote \in Remotes
    /\ InitProgram
    /\ apiIn = NoApiCall
    /\ apiOut = NoApiCall
    /\ bmw = NoBmw

Next ==
    \/ SyncGroups
    \/ SyncPersons
    \/ SyncRefresh
    \/ SyncJoin
    \/ StartCreateGroup
    \/ StartDeleteGroup
    \/ StartTrainGroup
    \/ StartCreatePerson
    \/ StartDeletePerson
    \/ StartFacePerson
    \/ \E f \in BagToSet(inflight) : ResumeCreateGroup(f)
    \/ \E f \in BagToSet(inflight) : ResumeDeleteGroup(f)
    \/ \E f \in BagToSet(inflight) : ResumeTrainGroup(f)
    \/ \E f \in BagToSet(inflight) : ResumeCreatePerson(f)
    \/ \E f \in BagToSet(inflight) : ResumeDeletePerson(f)
    \/ \E f \in BagToSet(inflight) : ResumeFaceImage(f)
    \/ \E f \in BagToSet(inflight) : ResumeFacePerson(f)

Spec == Init /\ [][Next]_vars


(***************************************************************************)
(* Properties of call_api (checked under SpecApi).                         *)
(***************************************************************************)
\* C3: a call_api invocation that times out raises HomeAssistantError with
\* the fixed message, for binary and JSON payloads alike, whether the
\* timeout strikes before a response exists or while its body is read.
C3_TimeoutRaisesServiceError ==
    (apiOut.called /\ apiIn.t.kind = "timeout") =>
        apiOut.result = Raise("HomeAssistantError", NetworkErrorMessage)

\* C4 as stated: a response with status 300 or above always raises
\* HomeAssistantError carrying the body's error.message and never returns
\* the body; a response below 300 returns the parsed body.
C4_ErrorStatusAlwaysServiceError ==
    (apiOut.called /\ apiIn.t.kind = "response") =>
        IF apiIn.t.status >= 300
        THEN /\ apiOut.result.kind = "raise"
             /\ apiOut.result.exc = "HomeAssistantError"
             /\ HasErrorMessage(apiIn.t.body)
             /\ apiOut.result.msg = apiIn.t.body.error.message
        ELSE apiOut.result = Return(apiIn.t.body)

\* C4 amended: a response with status 300 or above never returns the body;
\* it raises HomeAssistantError carrying the body's error.message when the
\* body has that field, and KeyError when it has not; a response below 300
\* returns the parsed body.
C4_ErrorStatusRaises ==
    (apiOut.called /\ apiIn.t.kind = "response") =>
        IF apiIn.t.status >= 300
        THEN /\ apiOut.result.kind = "raise"
             /\ IF HasErrorMessage(apiIn.t.body)
                THEN /\ apiOut.result.exc = "HomeAssistantError"
                     /\ apiOut.result.msg = apiIn.t.body.error.message
                ELSE apiOut.result.exc = "KeyError"
        ELSE apiOut.result = Return(apiIn.t.body)

\* A status-300 response with an error message has been turned into the
\* error that carries it.
C4_Witness ==
    /\ apiOut.called
    /\ apiIn.t.kind = "response"
    /\ apiIn.t.status = 300
    /\ apiIn.t.body = ErrorBody("RateLimitExceeded")
    /\ apiOut.result = Raise("HomeAssistantError", "RateLimitExceeded")

(***************************************************************************)
(* Properties of the component (checked under Spec).                       *)
(***************************************************************************)
Mutators == {SERVICE_CREATE_GROUP, SERVICE_DELETE_GROUP,
             SERVICE_CREATE_PERSON, SERVICE_DELETE_PERSON}

\* The step resumes the handler with frame f from its call_api and runs it
\* to its end.
Resumed(f) ==
    /\ BagIn(f, inflight)
    /\ f.pc = "api"
    /\ inflight' = inflight (-) SetToBag({f})

\* The step dispatches a service call, whose handler is suspended with f.
Dispatched(f) ==
    /\ started' = started + 1
    /\ inflight' = inflight (+) SetToBag({f})

\* The call_api consumed by the step returned.
Succeeded == last'.call = "return"

\* C5: once update_store has completed on the initially empty store, the
\* store has exactly the remote groups as keys, the keys of each group's
\* mapping are the names of its remote persons and each value is that
\* person's remote identifier.
C5_FullSyncMirrorsRemote ==
    (setup.pc = "done" /\ started = 0) =>
        /\ DOMAIN store = ListedGroups(remote.groups)
        /\ \A g \in DOMAIN store :
             LET persons == remote.persons[g] IN
             /\ DOMAIN store[g] = {persons[i].name : i \in 1..Len(persons)}
             /\ \A i \in 1..Len(persons) :
                  store[g][persons[i].name] = persons[i].personId

\* A completed sync of two groups, one of them with two persons.
C5_Witness ==
    /\ setup.pc = "done"
    /\ started = 0
    /\ Len(remote.groups) = 2
    /\ \E g \in DOMAIN store : Cardinality(DOMAIN store[g]) = 2

\* C1 as stated: a handler changes the store and the entity map only in
\* the step in which its own call_api returned; a group or person record is
\* added only after a successful PUT/POST and removed only after a
\* successful DELETE.
C1_RemovedOnlyAfterDelete ==
    [][setup.pc = "done" =>
        /\ (store' # store \/ entities' # entities) =>
             \E f \in BagToSet(inflight) :
                Resumed(f) /\ Succeeded /\ f.op \in Mutators
        /\ \A g \in (DOMAIN store' \ DOMAIN store)
                    \cup (DOMAIN entities' \ DOMAIN entities) :
             \E f \in BagToSet(inflight) :
                /\ Resumed(f) /\ Succeeded
                /\ f.g = g /\ f.req.method \in {"put", "post"}
        /\ \A g \in (DOMAIN store \ DOMAIN store')
                    \cup (DOMAIN entities \ DOMAIN entities') :
             \E f \in BagToSet(inflight) :
                /\ Resumed(f) /\ Succeeded
                /\ f.g = g /\ f.req.method = "delete"
        /\ \A g \in DOMAIN store \cap DOMAIN store' :
             /\ \A n \in DOMAIN store'[g] :
                  (n \notin DOMAIN store[g] \/ store'[g][n] # store[g][n]) =>
                     \E f \in BagToSet(inflight) :
                        /\ Resumed(f) /\ Succeeded
                        /\ f.g = g /\ f.req.method \in {"put", "post"}
             /\ \A n \in DOMAIN store[g] \ DOMAIN store'[g] :
                  \E f \in BagToSet(inflight) :
                     /\ Resumed(f) /\ Succeeded
                     /\ f.g = g /\ f.req.method = "delete"
    ]_vars

\* C1 amended: a handler changes the store and the entity map only in the
\* step in which its own call_api returned; a group record is added only by
\* create_group after its PUT and removed only by delete_group after its
\* DELETE; a person record is added or changed only by create_person after
\* its POST, and removed only by delete_person after its DELETE or by a
\* create_group whose PUT succeeded for a group already in the store.
C1_LocalChangeOnlyAfterOwnSuccess ==
    [][setup.pc = "done" =>
        /\ (store' # store \/ entities' # entities) =>
             \E f \in BagToSet(inflight) :
                Resumed(f) /\ Succeeded /\ f.op \in Mutators
        /\ \A g \in (DOMAIN store' \ DOMAIN store)
                    \cup (DOMAIN entities' \ DOMAIN entities) :
             \E f \in BagToSet(inflight) :
                /\ Resumed(f) /\ Succeeded
                /\ f.op = SERVICE_CREATE_GROUP
                /\ f.g = g /\ f.req.method = "put"
        /\ \A g \in (DOMAIN store \ DOMAIN store')
                    \cup (DOMAIN entities \ DOMAIN entities') :
             \E f \in BagToSet(inflight) :
                /\ Resumed(f) /\ Succeeded
                /\ f.op = SERVICE_DELETE_GROUP
                /\ f.g = g /\ f.req.method = "delete"
        /\ \A g \in DOMAIN store \cap DOMAIN store' :
             /\ \A n \in DOMAIN store'[g] :
                  (n \notin DOMAIN store[g] \/ store'[g][n] # store[g][n]) =>
                     \E f \in BagToSet(inflight) :
                        /\ Resumed(f) /\ Succeeded
                        /\ f.op = SERVICE_CREATE_PERSON
                        /\ f.g = g /\ f.name = n /\ f.req.method = "post"
             /\ \A n \in DOMAIN store[g] \ DOMAIN store'[g] :
                  \E f \in BagToSet(inflight) :
                     /\ Resumed(f) /\ Succeeded /\ f.g = g
                     /\ \/ /\ f.op = SERVICE_DELETE_PERSON
                           /\ f.name = n /\ f.req.method = "delete"
                        \/ /\ f.op = SERVICE_CREATE_GROUP
                           /\ f.req.method = "put"
    ]_vars

\* A handler has written the store in the step in which its call returned.
C1_Witness ==
    /\ setup.pc = "done"
    /\ last.call = "return"
    /\ \E g \in GroupIds : last.write = <<SERVICE_DELETE_PERSON, g>>

\* C2: every handler ends by returning normally, whatever the store, the
\* payload, the remote outcome and the interleaving: no step of a service
\* call leaves its handler by an exception.
C2_HandlersReturnNormally ==
    setup.pc = "done" => last.exit \in {"suspended", "returned"}

\* C6: once delete_group's call has returned, the store and the entity map
\* hold no entry for its identifier, whatever they held before; and no
\* person, face or train handler that runs afterwards brings a group back.
C6_DeletedGroupStaysAbsent ==
    [][setup.pc = "done" =>
        \A f \in BagToSet(inflight) :
           /\ (Resumed(f) /\ Succeeded /\ f.op = SERVICE_DELETE_GROUP) =>
                 /\ f.g \notin DOMAIN store'
                 /\ f.g \notin DOMAIN entities'
           /\ (/\ CopiesIn(f, inflight') < CopiesIn(f, inflight)
               /\ f.op \in {SERVICE_CREATE_PERSON, SERVICE_DELETE_PERSON,
                            SERVICE_FACE_PERSON, SERVICE_TRAIN_GROUP}) =>
                 /\ DOMAIN store' \subseteq DOMAIN store
                 /\ DOMAIN entities' \subseteq DOMAIN entities
    ]_vars

\* A group that only create_group can have put in the store (the remote
\* service did not list it) has just been deleted while a create_person on
\* it is still suspended.
C6_Witness ==
    /\ setup.pc = "done"
    /\ \E g \in GroupIds \ ListedGroups(remote.groups) :
         /\ last.write = <<SERVICE_DELETE_GROUP, g>>
         /\ last.exit = "returned"
         /\ g \notin DOMAIN store
         /\ g \notin DOMAIN entities
         /\ \E f \in BagToSet(inflight) :
               f.op = SERVICE_CREATE_PERSON /\ f.g = g

\* C7: delete_person for a name missing from an existing group's mapping
\* does not end before its remote call: the dispatch leaves exactly one
\* DELETE request in flight, with None in place of the person identifier;
\* the handler sends nothing more, and when that call fails the store is
\* unchanged.
C7_DeleteMissingPersonCallsRemote ==
    [][setup.pc = "done" =>
        /\ \A g \in DOMAIN store : \A n \in PersonNames \ DOMAIN store[g] :
             /\ last'.cmd # <<SERVICE_DELETE_PERSON, g, n>>
             /\ \A f \in BagToSet(inflight') :
                  (/\ Dispatched(f)
                   /\ f.op = SERVICE_DELETE_PERSON
                   /\ f.g = g /\ f.name = n) =>
                     /\ f.p_id = PyNone
                     /\ f.pc = "api"
                     /\ f.req.method = "delete"
                     /\ f.req.url = <<"persongroups", g, "persons", "None">>
        /\ \A f \in BagToSet(inflight) :
             (Resumed(f) /\ f.op = SERVICE_DELETE_PERSON /\ f.p_id = PyNone) =>
                /\ BagCardinality(inflight') = BagCardinality(inflight) - 1
                /\ ~Succeeded => store' = store
    ]_vars

\* A DELETE with the placeholder is in flight for a name its group's
\* mapping does not hold.
C7_Witness ==
    /\ setup.pc = "done"
    /\ \E f \in BagToSet(inflight) :
         /\ f.op = SERVICE_DELETE_PERSON
         /\ f.g \in DOMAIN store
         /\ f.name \notin DOMAIN store[f.g]
         /\ f.req.url = <<"persongroups", f.g, "persons", "None">>

\* The store differs from the one before the step at most in the entry of
\* name n in group g.
OnlyEntryChanged(g, n) ==
    /\ DOMAIN store' = DOMAIN store
    /\ \A h \in DOMAIN store \ {g} : store'[h] = store[h]
    /\ DOMAIN store'[g] \ {n} = DOMAIN store[g] \ {n}
    /\ \A m \in DOMAIN store[g] \ {n} : store'[g][m] = store[g][m]

\* C8: for a group in the store, a create_person whose call returned id
\* leaves store[group][name] = id; a delete_person whose call returned
\* leaves name out of store[group]; both leave every other name of the
\* group and every other group as they were.
C8_PersonRecordFollowsRemote ==
    [][setup.pc = "done" =>
        \A f \in BagToSet(inflight) :
           (Resumed(f) /\ Succeeded /\ f.g \in DOMAIN store) =>
              /\ f.op = SERVICE_CREATE_PERSON =>
                    /\ last'.value \in PersonIds
                    /\ f.name \in DOMAIN store'[f.g]
                    /\ store'[f.g][f.name] = last'.value
                    /\ OnlyEntryChanged(f.g, f.name)
              /\ (/\ f.op = SERVICE_DELETE_PERSON
                  /\ f.name \in DOMAIN store[f.g]) =>
                    /\ f.name \notin DOMAIN store'[f.g]
                    /\ OnlyEntryChanged(f.g, f.name)
    ]_vars

\* Two service calls have run on a group the sync filled with one person:
\* the second, a delete_person, has just removed a name and the group's
\* mapping is again the synced one, so the first was the create_person of
\* that name.
C8_Witness ==
    /\ setup.pc = "done"
    /\ started = 2
    /\ inflight = EmptyBag
    /\ \E g \in DOMAIN store :
         /\ last.write = <<SERVICE_DELETE_PERSON, g>>
         /\ last.exit = "returned"
         /\ Len(remote.persons[g]) = 1
         /\ DOMAIN store[g] = {remote.persons[g][1].name}
         /\ store[g][remote.persons[g][1].name] = remote.persons[g][1].personId

\* The state written for group g is the one its entity has now.
Rendered(g) ==
    /\ g \in DOMAIN entities
    /\ entity_id(entities[g]) \in DOMAIN states
    /\ states[entity_id(entities[g])].state = Cardinality(DOMAIN store[g])
    /\ states[entity_id(entities[g])].attributes = store[g]

\* C9 as stated: whenever no operation is in flight, update_store and every
\* handler having ended successfully or not, every group of the store is
\* rendered with its current person count and mapping.
C9_RenderedWheneverQuiescent ==
    (setup.pc \in {"done", "failed", "crashed"} /\ inflight = EmptyBag) =>
        \A g \in DOMAIN store : Rendered(g)

\* C9 amended: whenever update_store has completed successfully and no
\* handler is in flight, every group of the store is rendered with its
\* current person count and mapping.
C9_RenderedAfterSync ==
    (setup.pc = "done" /\ inflight = EmptyBag) =>
        \A g \in DOMAIN store : Rendered(g)

\* A create_person has just written a group and nothing is in flight.
C9_Witness ==
    /\ setup.pc = "done"
    /\ inflight = EmptyBag
    /\ \E g \in DOMAIN store :
         /\ last.write = <<SERVICE_CREATE_PERSON, g>>
         /\ Cardinality(DOMAIN store[g]) = 2
         /\ Rendered(g)

\* C10: a handler whose call returned writes the store entry of its group
\* as if it were alone, whether or not other handlers on the same group are
\* or were suspended at their calls at the same time, so the entry is the
\* one of the handler whose write runs last: create_group leaves an empty
\* mapping whatever a create_person wrote before, create_person leaves the
\* mapping it finds with its identifier under its name, delete_person the
\* mapping it finds without its name, delete_group no entry; the handlers
\* still suspended stay suspended.
C10_LaterWriterWins ==
    [][setup.pc = "done" =>
        \A f \in BagToSet(inflight) :
           (Resumed(f) /\ Succeeded) =>
              /\ \A h \in BagToSet(inflight) \ {f} :
                    CopiesIn(h, inflight') = CopiesIn(h, inflight)
              /\ f.op = SERVICE_CREATE_GROUP =>
                    /\ f.g \in DOMAIN store'
                    /\ store'[f.g] = EmptyDict
              /\ (f.op = SERVICE_CREATE_PERSON /\ f.g \in DOMAIN store) =>
                    store'[f.g] = DictSet(store[f.g], f.name, last'.value)
              /\ (/\ f.op = SERVICE_DELETE_PERSON
                  /\ f.g \in DOMAIN store
                  /\ f.name \in DOMAIN store[f.g]) =>
                    store'[f.g] = DictPop(store[f.g], f.name)
              /\ f.op = SERVICE_DELETE_GROUP => f.g \notin DOMAIN store'
              /\ last'.write = <<f.op, f.g>> =>
                    /\ \A h \in BagToSet(inflight') :
                          (h.g = f.g /\ h.pc = "api") =>
                             \E x \in BagToSet(raced'.suspended) : x.f = h
                    /\ \A x \in BagToSet(raced'.suspended) :
                          x.f.g = f.g => f.op \in x.by
    ]_vars

\* Two service calls have run, both on a group the sync stored without
\* persons: a create_group was suspended at its PUT while a create_person
\* wrote a person into the group, and has now, as the step executed last,
\* written the group, whose mapping is empty.
C10_Witness ==
    /\ setup.pc = "done"
    /\ started = 2
    /\ inflight = EmptyBag
    /\ \E g \in DOMAIN store :
         /\ SERVICE_CREATE_PERSON \in raced.ended
         /\ last.write = <<SERVICE_CREATE_GROUP, g>>
         /\ last.call = "return"
         /\ store[g] = EmptyDict

\* C11: a create_group whose PUT returned leaves, whatever the store and the
\* entity map held, an empty mapping under slugify(name) and the entity
\* constructed for (slugify(name), name) in place of any previous one,
\* rendered with no person; the other groups are as they were.
C11_CreateGroupResetsGroup ==
    [][setup.pc = "done" =>
        \A f \in BagToSet(inflight) :
           (Resumed(f) /\ Succeeded /\ f.op = SERVICE_CREATE_GROUP) =>
              /\ f.g = slugify(f.name)
              /\ DOMAIN store' = DOMAIN store \cup {f.g}
              /\ store'[f.g] = EmptyDict
              /\ \A h \in DOMAIN store \ {f.g} : store'[h] = store[h]
              /\ DOMAIN entities' = DOMAIN entities \cup {f.g}
              /\ entities'[f.g] = MicrosoftFaceGroupEntity(f.g, f.name)
              /\ \A h \in DOMAIN entities \ {f.g} : entities'[h] = entities[h]
              /\ states'[entity_id(entities'[f.g])] =
                    [state |-> 0, attributes |-> EmptyDict]
    ]_vars

\* The only service call so far, a create_group, has just written a group
\* that the sync had stored with a person and under another display name:
\* the mapping is empty and the entity is the new one.
C11_Witness ==
    /\ setup.pc = "done"
    /\ started = 1
    /\ \E i \in 1..Len(remote.groups) :
         LET g == remote.groups[i].personGroupId IN
         /\ last.write = <<SERVICE_CREATE_GROUP, g>>
         /\ Len(remote.persons[g]) >= 1
         /\ store[g] = EmptyDict
         /\ entities[g].name # remote.groups[i].name

\* The identifiers of the groups update_store has read, in list order.
SyncGroupIds == [i \in 1..Len(setup.groups) |-> setup.groups[i].personGroupId]

\* The entity ids of the refresh operations that have completed.
RefreshedIds ==
    {entity_id(entities[setup.tasks[i]]) :
        i \in (1..Len(setup.tasks)) \ setup.pending}

\* C12: while update_store fetches the persons of a group, that group's
\* store entry and entity exist, the later groups have none yet and no
\* refresh has been issued; the refreshes are issued together, one per
\* group, once the persons of every group have been fetched; and
\* update_store completes only when every one of them has completed.
C12_SyncFanOutFanIn ==
    /\ setup.pc = "list" => store = EmptyDict /\ states = EmptyDict
    /\ setup.pc = "persons" =>
         /\ setup.idx \in 1..Len(setup.groups)
         /\ DOMAIN store = {SyncGroupIds[j] : j \in 1..setup.idx}
         /\ DOMAIN entities = DOMAIN store
         /\ store[SyncGroupIds[setup.idx]] = EmptyDict
         /\ setup.tasks = SubSeq(SyncGroupIds, 1, setup.idx - 1)
         /\ setup.pending = {}
         /\ states = EmptyDict
    /\ setup.pc \in {"failed", "crashed"} => states = EmptyDict
    /\ setup.pc = "refresh" =>
         /\ setup.idx = Len(setup.groups) + 1
         /\ setup.tasks = SyncGroupIds
         /\ setup.pending \subseteq 1..Len(setup.tasks)
         /\ DOMAIN states = RefreshedIds
    /\ (setup.pc = "done" /\ started = 0) =>
         /\ setup.tasks = SyncGroupIds
         /\ setup.pending = {}
         /\ DOMAIN states = {entity_id(entities[g]) : g \in DOMAIN store}
         /\ \A g \in DOMAIN store : Rendered(g)

\* The refreshes of two groups have been issued; one has completed, the
\* other has not, and update_store is still waiting.
C12_Witness ==
    /\ setup.pc = "refresh"
    /\ Len(setup.tasks) = 2
    /\ Cardinality(setup.pending) = 1
    /\ Cardinality(DOMAIN states) = 1

\* The store and the entity map hold exactly the first n groups of the
\* remote list, the first n - 1 of them with all their remote persons.
SyncedPrefix(n) ==
    /\ DOMAIN store = {remote.groups[j].personGroupId : j \in 1..n}
    /\ DOMAIN entities = DOMAIN store
    /\ \A j \in 1..(n - 1) :
         LET g == remote.groups[j].personGroupId IN
         /\ DOMAIN store[g] =
               {remote.persons[g][i].name : i \in 1..Len(remote.persons[g])}
         /\ \A i \in 1..Len(remote.persons[g]) :
               store[g][remote.persons[g][i].name] =
                  remote.persons[g][i].personId

\* C13: when a remote call of update_store fails, update_store fails with
\* HomeAssistantError (async_setup returns False) and nothing is rolled
\* back: the store holds a prefix of the remote groups, the last of them
\* with the empty mapping it had when its persons call failed.
C13_FailedSyncRaisesServiceError ==
    setup.pc \in {"failed", "crashed"} =>
        /\ setup.pc = "failed"
        /\ last.call = "HomeAssistantError"
        /\ \E n \in 0..Len(remote.groups) :
             /\ SyncedPrefix(n)
             /\ n > 0 => store[remote.groups[n].personGroupId] = EmptyDict

\* C14: no step of train_group or face_person (dispatch, the arrival of the
\* camera image or its failure, the end of the remote call whatever its
\* outcome, or a lookup that fails at dispatch) changes the store, the
\* entity map or the rendered states.
C14_TrainAndFaceChangeNothing ==
    [][setup.pc = "done" =>
        /\ \A f \in BagToSet(inflight) \cup BagToSet(inflight') :
             (/\ f.op \in {SERVICE_TRAIN_GROUP, SERVICE_FACE_PERSON}
              /\ CopiesIn(f, inflight') # CopiesIn(f, inflight)) =>
                UNCHANGED <<store, entities, states>>
        /\ (last'.cmd # NoCmd /\ last'.cmd[1] = SERVICE_FACE_PERSON) =>
                UNCHANGED <<store, entities, states>>
    ]_vars

\* The only service call so far has ended: its remote call returned, the
\* handler returned normally and wrote nothing, which only train_group and
\* face_person do; the store holds a person.
C14_Witness ==
    /\ setup.pc = "done"
    /\ started = 1
    /\ inflight = EmptyBag
    /\ last.call = "return"
    /\ last.exit = "returned"
    /\ last.write = NoWrite
    /\ \E g \in DOMAIN store : store[g] # EmptyDict

\* C15 (checked under SpecApi): a connection failure makes call_api raise
\* HomeAssistantError with the fixed network-error message and return no
\* value: the same exception kind as a rejected request and as a timeout
\* that strikes while the body is read, which a handler catches, ending
\* normally.
C15_ConnectionFailureIsServiceError ==
    (apiOut.called /\ apiIn.t.kind = "client_error") =>
        LET rejected == call_api(apiIn.method, apiIn.function,
                                 apiIn.payload.data, apiIn.payload.binary,
                                 Response(404, ErrorBody("RateLimitExceeded")))
            timedOut == call_api(apiIn.method, apiIn.function,
                                 apiIn.payload.data, apiIn.payload.binary,
                                 Timeout(TRUE))
        IN /\ apiOut.result = Raise("HomeAssistantError", NetworkErrorMessage)
           /\ apiOut.result.kind = "raise"
           /\ apiOut.result.exc = rejected.exc
           /\ apiOut.result = timedOut
           /\ HandlerExit(apiOut.result) = "returned"
           /\ HandlerExit(apiOut.result) = HandlerExit(rejected)
           /\ CallKind(apiOut.result) = CallKind(rejected)

\* A binary POST whose connection failed has raised the network error.
C15_Witness ==
    /\ apiOut.called
    /\ apiIn.t = ClientError
    /\ apiIn.method = "post"
    /\ apiIn.payload.binary
    /\ apiOut.result.exc = "HomeAssistantError"
    /\ apiOut.result.msg = NetworkErrorMessage

\* C16: in every state (at each suspension point of update_store and of the
\* handlers, and after failed ones) the store and the entity map have the
\* same keys.
C16_StoreAndEntitiesSameKeys ==
    DOMAIN store = DOMAIN entities

\* A delete_group has just dropped a group from both, another group is
\* still in both, and an earlier service call is still suspended.
C16_Witness ==
    /\ setup.pc = "done"
    /\ inflight # EmptyBag
    /\ \E g \in GroupIds :
         /\ last.write = <<SERVICE_DELETE_GROUP, g>>
         /\ g \notin DOMAIN store \cup DOMAIN entities
    /\ DOMAIN store # {}
    /\ DOMAIN entities = DOMAIN store

\* C17: a key is added to the store only by a step of update_store or by
\* the step of a create_group whose PUT returned; no step of create_person,
\* delete_person, face_person or train_group adds one, so such a handler
\* resuming on a group that is no longer in the store leaves it out.
C17_GroupsEnterBySyncOrCreateGroup ==
    [][/\ \A g \in DOMAIN store' \ DOMAIN store :
            \/ setup.pc \in {"list", "persons"}
            \/ \E f \in BagToSet(inflight) :
                  /\ Resumed(f) /\ Succeeded
                  /\ f.op = SERVICE_CREATE_GROUP /\ f.g = g
       /\ \A f \in BagToSet(inflight) :
            (/\ CopiesIn(f, inflight') < CopiesIn(f, inflight)
             /\ f.op \in {SERVICE_CREATE_PERSON, SERVICE_DELETE_PERSON,
                          SERVICE_FACE_PERSON, SERVICE_TRAIN_GROUP}) =>
               /\ DOMAIN store' \subseteq DOMAIN store
               /\ f.g \notin DOMAIN store => f.g \notin DOMAIN store'
       /\ started' # started => DOMAIN store' = DOMAIN store
    ]_vars

\* Two service calls have run on two synced groups: one group is gone from
\* the store, and the call that ended last is a create_person whose POST
\* returned an identifier and whose write then failed on the missing group,
\* which is still missing.
C17_Witness ==
    /\ setup.pc = "done"
    /\ started = 2
    /\ inflight = EmptyBag
    /\ Len(remote.groups) = 2
    /\ Cardinality(DOMAIN store) = 1
    /\ last.call = "return"
    /\ last.value \in PersonIds
    /\ last.exit = "KeyError"
    /\ last.write = NoWrite

\* C18: the services are registered and the client is published only once
\* update_store has completed successfully, both in the same step, so no
\* service call is dispatched and no handler runs before; when update_store
\* fails, async_setup ends in failure with nothing registered or published.
C18_ServicesOnlyAfterSync ==
    /\ setup.pc \in {"list", "persons", "refresh", "done", "failed", "crashed"}
    /\ setup.pc # "done" =>
         /\ services = {}
         /\ ~published
         /\ started = 0
         /\ inflight = EmptyBag
    /\ setup.pc = "done" =>
         /\ services = Services
         /\ published
         /\ setup.groups = remote.groups
         /\ setup.tasks = SyncGroupIds
         /\ setup.pending = {}
         /\ last.call \in {"none", "return"} \/ started > 0

\* update_store has failed after it stored a group: nothing is registered
\* or published.
C18_Witness ==
    /\ setup.pc = "failed"
    /\ last.call = "HomeAssistantError"
    /\ store # EmptyDict
    /\ services = {}
    /\ ~published

\* The vehicles whose tracker the last step had to update: all of them for
\* setup_scanner, those of the account for an account update.
UpdatedVehicles ==
    {<<a, v>> : a \in (IF bmw.by = 0 THEN 1..Len(bmw.accounts) ELSE {bmw.by}),
                v \in 1..MaxVehicles} \cap
    {<<a, v>> \in (1..Len(bmw.accounts)) \X (1..MaxVehicles) :
        v <= Len(bmw.accounts[a].vehicles)}

\* C19 (checked under SpecBmw): setup_scanner calls update once for every
\* vehicle of every account, and an account update once for every vehicle
\* of that account; each call of update invokes see exactly once when the
\* vehicle's tracking flag is enabled, with the slugified vehicle name as
\* device id, the vehicle name as host name and its position, and not at
\* all when the flag is disabled.
C19_SeeOnlyWhileTrackingEnabled ==
    bmw.pc = "ready" =>
        /\ \A av \in UpdatedVehicles :
             Cardinality({i \in 1..Len(bmw.calls) :
                             bmw.calls[i].tracker.vehicle = av}) = 1
        /\ Len(bmw.calls) = Cardinality(UpdatedVehicles)
        /\ \A i \in 1..Len(bmw.calls) :
             LET vehicle == VehicleOf(bmw.accounts, bmw.calls[i].tracker)
                 sees == bmw.calls[i].sees
             IN IF vehicle.state.is_vehicle_tracking_enabled
                THEN /\ Len(sees) = 1
                     /\ sees[1].dev_id = slugify(vehicle.name)
                     /\ sees[1].dev_id \in {"i3_rex", "x5"}
                     /\ sees[1].host_name = vehicle.name
                     /\ sees[1].gps = vehicle.state.gps_position
                ELSE sees = <<>>

\* An account update has called the listeners of two vehicles: the one with
\* tracking enabled was reported under its slugified name, the one with
\* tracking disabled was not reported.
C19_Witness ==
    /\ bmw.pc = "ready"
    /\ bmw.by # 0
    /\ Len(bmw.calls) = 2
    /\ \E i, j \in 1..2 :
         /\ bmw.calls[i].sees = <<>>
         /\ Len(bmw.calls[j].sees) = 1
         /\ bmw.calls[j].sees[1].dev_id = "i3_rex"
         /\ bmw.calls[j].sees[1].host_name = "i3 REx"

====
